---------------------------- MODULE Spec2Model ----------------------------
(***************************************************************************)
(* A model of the three codemods of geekjuice/autobots:                    *)
(*   transforms/array-includes.js      (Array#indexOf -> Array#includes)   *)
(*   transforms/remove-exists.js       (exists(x) -> x != null)            *)
(*   transforms/react-addons-imports.js (React.addons.X -> import X)       *)
(*                                                                         *)
(* A syntax tree node is a record [type, val, kids]: `type` is the ESTree  *)
(* node type, `val` the node's scalar attribute (an identifier's name, an  *)
(* operator, a literal's value, an import's source path) and `kids` its    *)
(* child nodes in the order in which the traversal visits them.            *)
(*                                                                         *)
(* find/replaceWith of the tree library are modelled by what they do to a  *)
(* mutable tree: find collects every matching path in pre-order BEFORE any *)
(* replacement; replaceWith then calls the callback on each collected path *)
(* and writes the result into the slot of the path's parent container.     *)
(* A replacement node built by a callback reuses child node objects of the *)
(* replaced node, but not the replaced node's own containers (its          *)
(* `arguments` array, its callee), so a later replacement of such a child  *)
(* is written into a container that is no longer part of the tree.         *)
(***************************************************************************)
EXTENDS Naturals, Sequences, FiniteSets

VARIABLES
    transform,  \* which codemod runs on the module
    filename,   \* file.path, used in error messages only
    source,     \* the tree the current run started from: j(source)
    root,       \* the tree being rewritten in place
    prev,       \* the tree as it was before the last pass
    used,       \* the usage ledger: the keys of `used`, in insertion order
    addons,     \* the import declarations built by the last import synthesis
    imported,   \* result of removeExtraneousExistsImports
    swallowed,  \* exceptions caught by the pruning probe's try/catch
    error,      \* the thrown Error's message, <<>> when none was thrown
    output,     \* root.toSource(...), Null until the run has returned
    first,      \* the output of the first run, input of the second
    run,        \* 1: first run; 2: the codemod applied to its own output
    pc          \* the pipeline stage

vars == <<transform, filename, source, root, prev, used, addons, imported,
          swallowed, error, output, first, run, pc>>

(***************************************************************************)
(* Bounds of the model.                                                    *)
(***************************************************************************)
MaxArgs == 2    \* a call carries 0..MaxArgs arguments
MaxBody == 3    \* an addons module has 0..MaxBody top-level statements

(***************************************************************************)
(* Syntax trees.                                                           *)
(***************************************************************************)
Node(t, v, k) == [type |-> t, val |-> v, kids |-> k]

Null == Node("Null", "", <<>>)
Identifier(n) == Node("Identifier", n, <<>>)
Literal(v) == Node("Literal", v, <<>>)
UnaryExpression(op, arg) == Node("UnaryExpression", op, <<arg>>)
BinaryExpression(op, l, r) == Node("BinaryExpression", op, <<l, r>>)
MemberExpression(obj, prop) == Node("MemberExpression", "", <<obj, prop>>)
CallExpression(callee, args) == Node("CallExpression", "", <<callee>> \o args)
ExpressionStatement(e) == Node("ExpressionStatement", "", <<e>>)
ImportSpecifier(n) == Node("ImportSpecifier", n, <<>>)
ImportDefaultSpecifier(n) == Node("ImportDefaultSpecifier", n, <<>>)
ImportDeclaration(specifiers, src) == Node("ImportDeclaration", src, specifiers)
VariableDeclarator(id, init) == Node("VariableDeclarator", "", <<id, init>>)
VariableDeclaration(decls) == Node("VariableDeclaration", "const", decls)
ObjectPattern(props) == Node("ObjectPattern", "", props)
PropertyPattern(key, pattern) == Node("PropertyPattern", "", <<key, pattern>>)
JSXIdentifier(n) == Node("JSXIdentifier", n, <<>>)
JSXMemberExpression(obj, prop) == Node("JSXMemberExpression", "", <<obj, prop>>)
JSXElement(name) == Node("JSXElement", "", <<name>>)
Program(body) == Node("Program", "", body)

\* Accessors named after the node attributes the source reads.
left(n) == n.kids[1]
right(n) == n.kids[2]
operator(n) == n.val
argument(n) == n.kids[1]
callee(n) == n.kids[1]
arguments(n) == Tail(n.kids)
object(n) == n.kids[1]
property(n) == n.kids[2]
body(n) == n.kids
specifiers(n) == n.kids

Range(s) == {s[i] : i \in DOMAIN s}

RECURSIVE Concat(_)
Concat(ss) == IF ss = <<>> THEN <<>> ELSE Head(ss) \o Concat(Tail(ss))

\* The nodes of a subtree in the traversal's pre-order, the root first.
RECURSIVE Visit(_)
Visit(n) == <<n>> \o Concat([i \in DOMAIN n.kids |-> Visit(n.kids[i])])

\* Collection.find(type): every node of that type beneath n, n excluded.
find(n, t) == SelectSeq(Tail(Visit(n)), LAMBDA m : m.type = t)

(***************************************************************************)
(* transforms/array-includes.js                                            *)
(***************************************************************************)
FLIPPED_OPERATORS ==
    [op \in {"<", ">", "<=", ">="} |->
        CASE op = "<" -> ">" [] op = ">" -> "<"
          [] op = "<=" -> ">=" [] op = ">=" -> "<="]

usesIndexOf(node) ==
    /\ node.type = "CallExpression"
    /\ callee(node).type = "MemberExpression"
    /\ property(callee(node)).type = "Identifier"
    /\ property(callee(node)).val = "indexOf"

isNegativeOne(node) ==
    /\ node.type = "UnaryExpression"
    /\ argument(node).type = "Literal"
    /\ argument(node).val = "1"

isZero(node) ==
    /\ node.type = "Literal"
    /\ node.val = "0"

isNegativeOneOrZero(node) == isNegativeOne(node) \/ isZero(node)

flip(op) ==
    IF op \in DOMAIN FLIPPED_OPERATORS THEN FLIPPED_OPERATORS[op] ELSE op

isValidExpression(node, op) ==
    IF isZero(node) THEN op \in {"<", ">="} ELSE op \in {"===", "!==", ">"}

isNegatedExpression(literal, op) ==
    IF isZero(literal) THEN op = "<" ELSE op = "==="

\* A guard that lets a call with too many arguments through.
indexOfMalformedWhenEmpty(args) == Len(args) = 0

\* The guard of createIncludesExpression's throw.
indexOfMalformed(args) == Len(args) # 1

\* The node createIncludesExpression returns, given the receiver and the
\* argument node objects it reuses.
createIncludesExpression(array, value, literal, op) ==
    LET expression ==
            CallExpression(MemberExpression(array, Identifier("includes")),
                           <<value>>)
    IN  IF isNegatedExpression(literal, op)
        THEN UnaryExpression("!", expression)
        ELSE expression

\* The replaceWith callback's two branches: which operand is the call, and
\* the operator as seen from the call's side.  caller = Null: `return value`.
includesMatch(node) ==
    IF node.type # "BinaryExpression"
    THEN [caller |-> Null, literal |-> Null, op |-> ""]
    ELSE IF usesIndexOf(left(node)) /\ isNegativeOneOrZero(right(node))
    THEN IF isValidExpression(right(node), operator(node))
         THEN [caller |-> left(node), literal |-> right(node),
               op |-> operator(node)]
         ELSE [caller |-> Null, literal |-> Null, op |-> ""]
    ELSE IF usesIndexOf(right(node)) /\ isNegativeOneOrZero(left(node))
    THEN IF isValidExpression(left(node), flip(operator(node)))
         THEN [caller |-> right(node), literal |-> left(node),
               op |-> flip(operator(node))]
         ELSE [caller |-> Null, literal |-> Null, op |-> ""]
    ELSE [caller |-> Null, literal |-> Null, op |-> ""]


(***************************************************************************)
(* transforms/remove-exists.js                                             *)
(***************************************************************************)
IMPORT_PATH == "DashboardUI/lib/utils"
NAMED_IMPORT == "exists"

\* The specifier filter shared by the count and the reduce.
isExistsSpecifier(specifier) ==
    specifier.type = "ImportSpecifier" /\ specifier.val = NAMED_IMPORT

\* The find filter of removeNegatedExistsUsages.
negatedExistsMatch(node) ==
    /\ node.type = "UnaryExpression"
    /\ argument(node).type = "CallExpression"
    /\ callee(argument(node)).type = "Identifier"
    /\ callee(argument(node)).val = NAMED_IMPORT

\* The find filter of removeExistsUsages.
existsMatch(node) ==
    /\ node.type = "CallExpression"
    /\ callee(node).type = "Identifier"
    /\ callee(node).val = NAMED_IMPORT

\* The guards of the two throws.
negatedExistsMalformed(args) == Len(args) # 1
existsMalformed(args) == Len(args) # 1

(***************************************************************************)
(* find(...).replaceWith(callback) under one of the three expression rules.*)
(* replaceAt(rule, n) is what ends up in the slot that held n;             *)
(* replaceWithin(rule, n) is the node object n itself once every collected *)
(* path beneath it has been replaced in place.  A callback's result reuses *)
(* the receiver and argument objects, so it sees the replacements made     *)
(* beneath them but not a replacement of the receiver or argument itself.  *)
(***************************************************************************)
RECURSIVE replaceAt(_, _), replaceWithin(_, _)
replaceWithin(rule, n) ==
    [n EXCEPT !.kids = [i \in DOMAIN n.kids |-> replaceAt(rule, n.kids[i])]]

replaceAt(rule, n) ==
    CASE rule = "includes" ->
            LET m == includesMatch(n)
            IN  IF m.caller = Null
                THEN replaceWithin(rule, n)
                ELSE createIncludesExpression(
                        replaceWithin(rule, object(callee(m.caller))),
                        replaceWithin(rule, arguments(m.caller)[1]),
                        m.literal, m.op)
      [] rule = "negated" ->
            IF negatedExistsMatch(n)
            THEN BinaryExpression("==",
                    replaceWithin(rule, arguments(argument(n))[1]),
                    Literal("null"))
            ELSE replaceWithin(rule, n)
      [] rule = "exists" ->
            IF existsMatch(n)
            THEN BinaryExpression("!=",
                    replaceWithin(rule, arguments(n)[1]),
                    Literal("null"))
            ELSE replaceWithin(rule, n)

\* Whether some callback of the pass throws: the callback runs on every path
\* find collected, whether or not its slot is still part of the tree.
callbackThrows(rule, tree) ==
    \E n \in Range(find(tree, IF rule = "includes" THEN "BinaryExpression"
                              ELSE IF rule = "negated" THEN "UnaryExpression"
                              ELSE "CallExpression")) :
        CASE rule = "includes" ->
                /\ includesMatch(n).caller # Null
                /\ indexOfMalformed(arguments(includesMatch(n).caller))
          [] rule = "negated" ->
                /\ negatedExistsMatch(n)
                /\ negatedExistsMalformed(arguments(argument(n)))
          [] rule = "exists" ->
                /\ existsMatch(n)
                /\ existsMalformed(arguments(n))

\* `incorrect usage of '<method>' in ${filename}`
usageError(method, path) == <<"incorrect usage of", method, "in", path>>

replaceIndexOfWithIncludes(node) == replaceWithin("includes", node)
removeNegatedExistsUsages(node) == replaceWithin("negated", node)
removeExistsUsages(node) == replaceWithin("exists", node)

\* removeExtraneousExistsImports: the `imported` flag it returns ...
existsImported(node) ==
    \E d \in Range(find(node, "ImportDeclaration")) :
        /\ d.val = IMPORT_PATH
        /\ \E i \in DOMAIN specifiers(d) : isExistsSpecifier(specifiers(d)[i])

\* ... and the statement its callback leaves in place of an import
\* declaration; <<>> stands for the deleted statement (return null).
stripExistsSpecifier(d) ==
    IF d.type # "ImportDeclaration" \/ d.val # IMPORT_PATH THEN <<d>>
    ELSE LET imports == SelectSeq(specifiers(d),
                                  LAMBDA sp : ~isExistsSpecifier(sp))
         IN  IF Len(imports) = Len(specifiers(d)) THEN <<d>>
             ELSE IF imports = <<>> THEN <<>>
             ELSE <<[d EXCEPT !.kids = imports]>>

removeExtraneousExistsImports(node) ==
    [node EXCEPT !.kids =
        Concat([i \in DOMAIN body(node) |-> stripExistsSpecifier(body(node)[i])])]


(***************************************************************************)
(* transforms/react-addons-imports.js                                      *)
(***************************************************************************)
\* The object literal's entries in key order: <<name, import path>>.
ADDONS_IMPORTS ==
    << <<"PureRenderMixin", "react-addons-pure-render-mixin">>,
       <<"LinkedStateMixin", "react-addons-linked-state-mixin">>,
       <<"CSSTransitionGroup", "react-addons-css-transition-group">>,
       <<"shallowCompare", "react-addons-shallow-compare">>,
       <<"TransitionGroup", "react-addons-transition-group">>,
       <<"createFragment", "react-addons-create-fragment">>,
       <<"Perf", "react-addons-perf">> >>

\* The inverted table: <<import path, name>>.
ADDONS_PATHS ==
    [i \in DOMAIN ADDONS_IMPORTS |-> <<ADDONS_IMPORTS[i][2], ADDONS_IMPORTS[i][1]>>]

has(table, key) == \E i \in DOMAIN table : table[i][1] = key

\* table[key], for a key the table has.
get(table, key) == table[CHOOSE i \in DOMAIN table : table[i][1] = key][2]

\* used[name] = true: a new key goes last, an existing key keeps its place.
mark(ledger, name) ==
    IF name \in Range(ledger) THEN ledger ELSE Append(ledger, name)

RECURSIVE markAll(_, _)
markAll(ledger, names) ==
    IF names = <<>> THEN ledger
    ELSE markAll(mark(ledger, Head(names)), Tail(names))

\* delete used[name]
unmark(ledger, name) == SelectSeq(ledger, LAMBDA k : k # name)

\* The specifier filter shared by the filter and the reduce.
isAddonsSpecifier(specifier) ==
    specifier.type = "ImportSpecifier" /\ specifier.val = "addons"

\* The statement the callback leaves in place of an import declaration;
\* <<>> stands for the deleted statement (return null).
stripAddonsSpecifier(d) ==
    IF d.type # "ImportDeclaration" THEN <<d>>
    ELSE LET imports == SelectSeq(specifiers(d),
                                  LAMBDA sp : ~isAddonsSpecifier(sp))
         IN  IF Len(imports) = Len(specifiers(d)) THEN <<d>>
             ELSE IF imports = <<>> THEN <<>>
             ELSE <<[d EXCEPT !.kids = imports]>>

\* Returns the tree; the ledger it returns is `current`, untouched.
removeExtraneousAddonsImport(node) ==
    [node EXCEPT !.kids =
        Concat([i \in DOMAIN body(node) |-> stripAddonsSpecifier(body(node)[i])])]

\* The nodes beneath n in pre-order, each with the type of its parent node.
RECURSIVE visitWithParent(_, _)
visitWithParent(n, parentType) ==
    <<[node |-> n, parent |-> parentType]>>
        \o Concat([i \in DOMAIN n.kids |-> visitWithParent(n.kids[i], n.type)])

\* find(j.Identifier) also yields JSXIdentifier nodes, a subtype of
\* Identifier; .filter(has(ADDONS_IMPORTS, name)) keeps the tracked ones.
trackedIdentifiers(n, idTypes) ==
    SelectSeq(Tail(visitWithParent(n, "")),
              LAMBDA p : p.node.type \in idTypes /\ has(ADDONS_IMPORTS, p.node.val))

\* Only a destructuring pattern counts as a use.
declarationParentPatternOnly(type) == type \in {"PropertyPattern"}

\* The parent types under which a declaration's identifier counts as a use.
declarationParent(type) == type \in {"MemberExpression", "PropertyPattern"}

\* The probe inside try: true when the declaration holds no call expression.
probeAllowsPrune(decl) == find(decl, "CallExpression") = <<>>

\* The inner forEach over one declaration's tracked identifiers.  Once the
\* path is pruned its value is gone, and j(path.value) throws inside the try.
RECURSIVE probeEach(_, _, _)
probeEach(ids, decl, acc) ==
    IF ids = <<>> THEN acc
    ELSE LET id == Head(ids)
         IN  IF ~declarationParent(id.parent)
             THEN probeEach(Tail(ids), decl, acc)
             ELSE probeEach(Tail(ids), decl,
                    [used |-> mark(acc.used, id.node.val),
                     pruned |-> acc.pruned \/ probeAllowsPrune(decl),
                     swallowed |-> IF acc.pruned THEN acc.swallowed + 1
                                   ELSE acc.swallowed])

\* The outer forEach over the module's variable declarations.
RECURSIVE pruneEach(_, _)
pruneEach(stmts, acc) ==
    IF stmts = <<>> THEN acc
    ELSE LET d == Head(stmts)
         IN  IF d.type # "VariableDeclaration"
             THEN pruneEach(Tail(stmts), [acc EXCEPT !.kept = Append(@, d)])
             ELSE LET r == probeEach(
                            trackedIdentifiers(d, {"Identifier", "JSXIdentifier"}),
                            d,
                            [used |-> acc.used, pruned |-> FALSE,
                             swallowed |-> acc.swallowed])
                  IN  pruneEach(Tail(stmts),
                        [kept |-> IF r.pruned THEN acc.kept
                                  ELSE Append(acc.kept, d),
                         used |-> r.used,
                         swallowed |-> r.swallowed])

\* Returns [kept: the module body, used: the ledger, swallowed].
removeAddonVariableDeclarations(node, current) ==
    pruneEach(body(node), [kept |-> <<>>, used |-> current, swallowed |-> 0])

\* removeReferences(jsx, ...): the node kinds the pass looks at.
identifierType(jsx) == IF jsx THEN "JSXIdentifier" ELSE "Identifier"
memberType(jsx) == IF jsx THEN "JSXMemberExpression" ELSE "MemberExpression"
foundTypes(jsx) == IF jsx THEN {"JSXIdentifier"} ELSE {"Identifier", "JSXIdentifier"}

isTracked(jsx, n) == n.type \in foundTypes(jsx) /\ has(ADDONS_IMPORTS, n.val)

\* The names removeReferences marks, in the order the forEach meets them.
\* Replacing a member expression also replaces the value of its path, so
\* a second tracked child of the same member no longer sees a member parent.
RECURSIVE referencesMarked(_, _)
referencesMarked(jsx, n) ==
    IF n.type = memberType(jsx)
    THEN IF isTracked(jsx, object(n)) THEN <<object(n).val>>
         ELSE referencesMarked(jsx, object(n))
                \o (IF isTracked(jsx, property(n)) THEN <<property(n).val>>
                    ELSE referencesMarked(jsx, property(n)))
    ELSE Concat([i \in DOMAIN n.kids |-> referencesMarked(jsx, n.kids[i])])

\* The tree removeReferences leaves.
RECURSIVE referencesRemoved(_, _)
referencesRemoved(jsx, n) ==
    IF n.type = memberType(jsx) /\ isTracked(jsx, object(n))
    THEN Node(identifierType(jsx), object(n).val, <<>>)
    ELSE IF n.type = memberType(jsx) /\ isTracked(jsx, property(n))
    THEN Node(identifierType(jsx), property(n).val, <<>>)
    ELSE [n EXCEPT !.kids =
            [i \in DOMAIN n.kids |-> referencesRemoved(jsx, n.kids[i])]]

\* /react/i.test(value) and /^react$/i.test(value) on the import sources
\* that occur in the model.
likeReact(value) ==
    value \in {"react", "React", "react-router"} \/ has(ADDONS_PATHS, value)
isReact(value) == value \in {"react", "React"}

\* One step of body.reduce: acc = [memo, done, used].
scanStatement(acc, current, idx) ==
    IF acc.done THEN acc
    ELSE IF current.type = "ExpressionStatement"
    THEN [acc EXCEPT !.memo = IF current.kids[1].type = "Literal"
                                  /\ current.kids[1].val = "use es6"
                               THEN idx ELSE @]
    ELSE IF current.type = "ImportDeclaration"
    THEN IF has(ADDONS_PATHS, current.val)
         THEN [memo |-> idx, done |-> TRUE,
               used |-> unmark(acc.used, get(ADDONS_PATHS, current.val))]
         ELSE [acc EXCEPT !.memo = IF likeReact(current.val) THEN idx ELSE @,
                          !.done = IF isReact(current.val) THEN TRUE ELSE @]
    ELSE acc

\* The initial accumulator [0, false]; idx counts from 0 as in the source.
scanStart(imports) == [memo |-> 0, done |-> FALSE, used |-> imports]

RECURSIVE scanBody(_, _, _)
scanBody(stmts, idx, acc) ==
    IF stmts = <<>> THEN acc
    ELSE scanBody(Tail(stmts), idx + 1, scanStatement(acc, Head(stmts), idx))

\* The keys of ADDONS_IMPORTS that the ledger holds, in the table's order.
pendingAddonsInTableOrder(ledger) ==
    SelectSeq([i \in DOMAIN ADDONS_IMPORTS |-> ADDONS_IMPORTS[i][1]],
              LAMBDA k : k \in Range(ledger))

\* Object.keys(used).map(...): one default import per key, in key order.
pendingAddons(ledger) == ledger

synthesizedImport(addon) ==
    ImportDeclaration(<<ImportDefaultSpecifier(addon)>>, get(ADDONS_IMPORTS, addon))

\* Array.prototype.slice(start, end) with start <= end, both clamped.
slice(s, start, end) ==
    LET lo == IF start > Len(s) THEN Len(s) ELSE start
        hi == IF end > Len(s) THEN Len(s) ELSE end
    IN  [i \in 1..(hi - lo) |-> s[lo + i]]

\* body.slice(0, index + 1), ...addons, body.slice(index + 1)
spliceImports(stmts, index, block) ==
    slice(stmts, 0, index + 1) \o block \o slice(stmts, index + 1, Len(stmts))

\* Returns [body, addons].
addReactAddonImports(node, imports) ==
    LET scan == scanBody(body(node), 0, scanStart(imports))
        keys == pendingAddons(scan.used)
        block == [i \in DOMAIN keys |-> synthesizedImport(keys[i])]
    IN  [body |-> spliceImports(body(node), scan.memo, block), addons |-> block]


(***************************************************************************)
(* The modules the codemods are run on.                                    *)
(***************************************************************************)
Filenames == {"src/a.js", "src/b.js"}

xs(n) == [i \in 1..n |-> Identifier("x")]

indexCall(receiver, method, args) ==
    CallExpression(MemberExpression(receiver, Identifier(method)), args)

ComparisonOperators == {"<", ">", "<=", ">=", "===", "!==", "=="}

\* 0, 1, -1 and +1
Numbers ==
    {Literal("0"), Literal("1"),
     UnaryExpression("-", Literal("1")), UnaryExpression("+", Literal("1"))}

IndexCalls ==
    {indexCall(Identifier("arr"), m, xs(n)) :
        m \in {"indexOf", "lastIndexOf"}, n \in 0..MaxArgs}

\* arr.indexOf(x) OP k and k OP arr.indexOf(x)
FlatComparisons ==
    {BinaryExpression(op, c, k) : op \in ComparisonOperators, c \in IndexCalls,
                                  k \in Numbers}
    \cup {BinaryExpression(op, k, c) : op \in ComparisonOperators,
                                       c \in IndexCalls, k \in Numbers}

\* A comparison inside the receiver or the argument of another one's call,
\* either directly or one call deeper.
InnerComparisons ==
    {BinaryExpression(">=", indexCall(Identifier("b"), "indexOf", xs(1)),
                      Literal("0")),
     BinaryExpression("===", indexCall(Identifier("b"), "indexOf", xs(0)),
                      UnaryExpression("-", Literal("1")))}

Hosts(e) == {e, CallExpression(Identifier("f"), <<e>>)}

NestedComparisons ==
    {BinaryExpression(op, indexCall(ra[1], "indexOf", <<ra[2]>>), k) :
        op \in ComparisonOperators, k \in Numbers,
        ra \in UNION {({Identifier("arr")} \X Hosts(e))
                        \cup (Hosts(e) \X {Identifier("x")}) :
                      e \in InnerComparisons}}

IncludesModules ==
    {Program(<<ExpressionStatement(e)>>) :
        e \in FlatComparisons \cup NestedComparisons}

existsCall(args) == CallExpression(Identifier(NAMED_IMPORT), args)

UnaryOperators == {"!", "typeof", "-"}

ExistsCalls ==
    {existsCall(xs(n)) : n \in 0..MaxArgs}
    \cup {CallExpression(MemberExpression(Identifier("utils"),
                                          Identifier(NAMED_IMPORT)), xs(1))}

ExistsUsages ==
    ExistsCalls \cup {UnaryExpression(op, c) : op \in UnaryOperators,
                                               c \in ExistsCalls}

ExistsExpressions ==
    ExistsUsages
    \cup {existsCall(<<e>>) : e \in ExistsUsages}
    \cup {UnaryExpression(op, existsCall(<<e>>)) : op \in UnaryOperators,
                                                   e \in ExistsUsages}
    \cup {CallExpression(Identifier("f"), <<e>>) : e \in ExistsUsages}
    \cup {UnaryExpression("!", UnaryExpression("!", c)) : c \in ExistsCalls}

ExistsImports ==
    {ImportDeclaration(<<ImportSpecifier(NAMED_IMPORT)>>, IMPORT_PATH),
     ImportDeclaration(<<ImportSpecifier(NAMED_IMPORT), ImportSpecifier("noop")>>,
                       IMPORT_PATH),
     ImportDeclaration(<<ImportSpecifier("noop")>>, IMPORT_PATH),
     ImportDeclaration(<<ImportDefaultSpecifier(NAMED_IMPORT)>>, IMPORT_PATH),
     ImportDeclaration(<<ImportSpecifier(NAMED_IMPORT)>>, "other/utils")}

ExistsModules ==
    {Program(<<i, ExpressionStatement(e)>>) :
        i \in ExistsImports, e \in ExistsExpressions}

ReactAddons == MemberExpression(Identifier("React"), Identifier("addons"))

\* The top-level statements an addons module is made of.
AddonsStatements ==
    {   \* import React from 'react';
        ImportDeclaration(<<ImportDefaultSpecifier("React")>>, "react"),
        \* import React, {addons} from 'react';
        ImportDeclaration(<<ImportDefaultSpecifier("React"),
                            ImportSpecifier("addons")>>, "react"),
        \* import {addons} from 'react';
        ImportDeclaration(<<ImportSpecifier("addons")>>, "react"),
        \* import Perf from 'react-addons-perf';
        ImportDeclaration(<<ImportDefaultSpecifier("Perf")>>, "react-addons-perf"),
        \* import Router from 'react-router';
        ImportDeclaration(<<ImportDefaultSpecifier("Router")>>, "react-router"),
        \* 'use es6';
        ExpressionStatement(Literal("use es6")),
        \* const {Perf} = addons;
        VariableDeclaration(<<VariableDeclarator(
            ObjectPattern(<<PropertyPattern(Identifier("Perf"), Identifier("Perf"))>>),
            Identifier("addons"))>>),
        \* const {Perf, PureRenderMixin} = React.addons;
        VariableDeclaration(<<VariableDeclarator(
            ObjectPattern(<<PropertyPattern(Identifier("Perf"), Identifier("Perf")),
                            PropertyPattern(Identifier("PureRenderMixin"),
                                            Identifier("PureRenderMixin"))>>),
            ReactAddons)>>),
        \* const Perf = React.addons.Perf;
        VariableDeclaration(<<VariableDeclarator(
            Identifier("Perf"), MemberExpression(ReactAddons, Identifier("Perf")))>>),
        \* const {PureRenderMixin} = require('react').addons;
        VariableDeclaration(<<VariableDeclarator(
            ObjectPattern(<<PropertyPattern(Identifier("PureRenderMixin"),
                                            Identifier("PureRenderMixin"))>>),
            MemberExpression(CallExpression(Identifier("require"),
                                            <<Literal("react")>>),
                             Identifier("addons")))>>),
        \* React.addons.Perf.start();
        ExpressionStatement(CallExpression(
            MemberExpression(MemberExpression(ReactAddons, Identifier("Perf")),
                             Identifier("start")), <<>>)),
        \* Perf;
        ExpressionStatement(Identifier("Perf")),
        \* <React.addons.CSSTransitionGroup />;
        ExpressionStatement(JSXElement(JSXMemberExpression(
            JSXMemberExpression(JSXIdentifier("React"), JSXIdentifier("addons")),
            JSXIdentifier("CSSTransitionGroup"))))
    }

AddonsModules ==
    {Program(b) : b \in UNION {[1..n -> AddonsStatements] : n \in 0..MaxBody}}

Modules(t) ==
    CASE t = "array-includes" -> IncludesModules
      [] t = "remove-exists" -> ExistsModules
      [] t = "react-addons-imports" -> AddonsModules

(***************************************************************************)
(* The state machine: one run of a codemod on a module, pass by pass, and  *)
(* a second run of the same codemod on the first run's output.             *)
(***************************************************************************)
Init ==
    /\ transform \in {"array-includes", "remove-exists", "react-addons-imports"}
    /\ filename \in IF transform = "react-addons-imports" THEN {"src/a.js"}
                    ELSE Filenames
    /\ source \in Modules(transform)
    /\ root = source
    /\ prev = source
    /\ used = <<>>
    /\ addons = <<>>
    /\ imported = FALSE
    /\ swallowed = 0
    /\ error = <<>>
    /\ output = Null
    /\ first = Null
    /\ run = 1
    /\ pc = "Parsed"

\* array-includes.js: replaceIndexOfWithIncludes(root); root.toSource(...)
ArrayIncludes ==
    /\ transform = "array-includes"
    /\ pc = "Parsed"
    /\ prev' = root
    /\ IF callbackThrows("includes", root)
       THEN /\ error' = usageError("indexOf", filename)
            /\ pc' = "Failed"
            /\ UNCHANGED <<root, output>>
       ELSE /\ root' = replaceIndexOfWithIncludes(root)
            /\ output' = root'
            /\ pc' = "Printed"
            /\ UNCHANGED error
    /\ UNCHANGED <<transform, filename, source, used, addons, imported,
                   swallowed, first, run>>

\* remove-exists.js: if (removeExtraneousExistsImports(root)) { ... }
RemoveExistsImports ==
    /\ transform = "remove-exists"
    /\ pc = "Parsed"
    /\ prev' = root
    /\ imported' = existsImported(root)
    /\ root' = removeExtraneousExistsImports(root)
    /\ IF imported'
       THEN pc' = "ImportsRemoved" /\ UNCHANGED output
       ELSE pc' = "Printed" /\ output' = root'
    /\ UNCHANGED <<transform, filename, source, used, addons, swallowed,
                   error, first, run>>

\* removeNegatedExistsUsages(root)
RemoveNegatedExists ==
    /\ transform = "remove-exists"
    /\ pc = "ImportsRemoved"
    /\ prev' = root
    /\ IF callbackThrows("negated", root)
       THEN /\ error' = usageError(NAMED_IMPORT, filename)
            /\ pc' = "Failed"
            /\ UNCHANGED root
       ELSE /\ root' = removeNegatedExistsUsages(root)
            /\ pc' = "NegatedRemoved"
            /\ UNCHANGED error
    /\ UNCHANGED <<transform, filename, source, used, addons, imported,
                   swallowed, output, first, run>>

\* removeExistsUsages(root); root.toSource(...)
RemoveExists ==
    /\ transform = "remove-exists"
    /\ pc = "NegatedRemoved"
    /\ prev' = root
    /\ IF callbackThrows("exists", root)
       THEN /\ error' = usageError(NAMED_IMPORT, filename)
            /\ pc' = "Failed"
            /\ UNCHANGED <<root, output>>
       ELSE /\ root' = removeExistsUsages(root)
            /\ output' = root'
            /\ pc' = "Printed"
            /\ UNCHANGED error
    /\ UNCHANGED <<transform, filename, source, used, addons, imported,
                   swallowed, first, run>>

\* transforms[0]: removeExtraneousAddonsImport(root, {})
StripAggregator ==
    /\ transform = "react-addons-imports"
    /\ pc = "Parsed"
    /\ prev' = root
    /\ root' = removeExtraneousAddonsImport(root)
    /\ pc' = "AggregatorStripped"
    /\ UNCHANGED <<transform, filename, source, used, addons, imported,
                   swallowed, error, output, first, run>>

\* transforms[1]: removeAddonVariableDeclarations(root, memo)
PruneDeclarations ==
    /\ transform = "react-addons-imports"
    /\ pc = "AggregatorStripped"
    /\ prev' = root
    /\ LET r == removeAddonVariableDeclarations(root, used)
       IN  /\ root' = [root EXCEPT !.kids = r.kept]
           /\ used' = r.used
           /\ swallowed' = r.swallowed
    /\ pc' = "DeclarationsPruned"
    /\ UNCHANGED <<transform, filename, source, addons, imported, error,
                   output, first, run>>

\* transforms[2]: removeNestedReferences(root, memo)
FlattenReferences ==
    /\ transform = "react-addons-imports"
    /\ pc = "DeclarationsPruned"
    /\ prev' = root
    /\ root' = referencesRemoved(FALSE, root)
    /\ used' = markAll(used, referencesMarked(FALSE, root))
    /\ pc' = "NonJSXFlattened"
    /\ UNCHANGED <<transform, filename, source, addons, imported, swallowed,
                   error, output, first, run>>

\* transforms[3]: removeNestedJSXReferences(root, memo)
FlattenJSXReferences ==
    /\ transform = "react-addons-imports"
    /\ pc = "NonJSXFlattened"
    /\ prev' = root
    /\ root' = referencesRemoved(TRUE, root)
    /\ used' = markAll(used, referencesMarked(TRUE, root))
    /\ pc' = "JSXFlattened"
    /\ UNCHANGED <<transform, filename, source, addons, imported, swallowed,
                   error, output, first, run>>

\* addReactAddonImports(root, used); root.toSource(...)
SynthesizeImports ==
    /\ transform = "react-addons-imports"
    /\ pc = "JSXFlattened"
    /\ prev' = root
    /\ LET r == addReactAddonImports(root, used)
       IN  /\ root' = [root EXCEPT !.kids = r.body]
           /\ addons' = r.addons
    /\ output' = root'
    /\ pc' = "Printed"
    /\ UNCHANGED <<transform, filename, source, used, imported, swallowed,
                   error, first, run>>

\* The codemod is run again on what it printed.
Rerun ==
    /\ pc = "Printed"
    /\ run = 1
    /\ run' = 2
    /\ first' = output
    /\ source' = output
    /\ root' = output
    /\ prev' = output
    /\ used' = <<>>
    /\ addons' = <<>>
    /\ imported' = FALSE
    /\ swallowed' = 0
    /\ output' = Null
    /\ pc' = "Parsed"
    /\ UNCHANGED <<transform, filename, error>>

Next ==
    \/ ArrayIncludes
    \/ RemoveExistsImports
    \/ RemoveNegatedExists
    \/ RemoveExists
    \/ StripAggregator
    \/ PruneDeclarations
    \/ FlattenReferences
    \/ FlattenJSXReferences
    \/ SynthesizeImports
    \/ Rerun

Spec == Init /\ [][Next]_vars


(***************************************************************************)
(* Definitions the properties below are stated with.                       *)
(***************************************************************************)
\* The single expression statement's expression, for the idiom codemods.
lastExpression(tree) == body(tree)[Len(body(tree))].kids[1]

isMinusOne(n) ==
    /\ n.type = "UnaryExpression"
    /\ n.val = "-"
    /\ argument(n).type = "Literal"
    /\ argument(n).val = "1"

isZeroOrMinusOne(n) == (n.type = "Literal" /\ n.val = "0") \/ isMinusOne(n)

\* The operator-validity table of the index-search rule.
tableAccepts(literal, op) ==
    IF isMinusOne(literal) THEN op \in {"===", "!==", ">"} ELSE op \in {"<", ">="}

tableNegates(literal, op) ==
    IF isMinusOne(literal) THEN op = "===" ELSE op = "<"

flipped(op) ==
    CASE op = "<" -> ">" [] op = ">" -> "<" [] op = "<=" -> ">="
      [] op = ">=" -> "<=" [] OTHER -> op

\* The indexOf call of a comparison the table accepts, Null when it has none.
tableCall(n) ==
    IF n.type # "BinaryExpression" THEN Null
    ELSE IF usesIndexOf(left(n)) /\ isZeroOrMinusOne(right(n))
            /\ tableAccepts(right(n), operator(n))
    THEN left(n)
    ELSE IF usesIndexOf(right(n)) /\ isZeroOrMinusOne(left(n))
            /\ tableAccepts(left(n), flipped(operator(n)))
    THEN right(n)
    ELSE Null

\* What the table makes of a comparison whose operands hold no comparison.
tableForm(n) ==
    IF tableCall(n) = Null THEN n
    ELSE LET call == tableCall(n)
             literal == IF call = left(n) THEN right(n) ELSE left(n)
             op == IF call = left(n) THEN operator(n) ELSE flipped(operator(n))
             includes == CallExpression(
                            MemberExpression(object(callee(call)),
                                             Identifier("includes")),
                            arguments(call))
         IN  IF tableNegates(literal, op) THEN UnaryExpression("!", includes)
             ELSE includes

\* A comparison with no comparison inside it, whose indexOf calls (if any)
\* carry exactly one argument.
isFlatComparison(n) ==
    /\ n.type = "BinaryExpression"
    /\ find(n, "BinaryExpression") = <<>>
    /\ \A c \in Range(find(n, "CallExpression")) :
            usesIndexOf(c) => Len(arguments(c)) = 1

\* C1: a flat comparison is rewritten exactly as the operator table says:
\* only an indexOf call against the literal 0 or -1 under an accepted
\* operator (flipped when the call is on the right) is rewritten, to the
\* table's form; every other combination, other unary operators applied to
\* 1 included, is left unchanged.
C1_TableExact ==
    (/\ transform = "array-includes"
     /\ pc # "Parsed"
     /\ isFlatComparison(lastExpression(source)))
        => /\ pc = "Printed"
           /\ lastExpression(output) = tableForm(lastExpression(source))

importsFrom(tree, path) ==
    Len(SelectSeq(body(tree),
                  LAMBDA st : st.type = "ImportDeclaration" /\ st.val = path))

\* C2: a module that already holds one import of a tracked symbol's
\* canonical path holds exactly one import of that path after synthesis,
\* wherever the existing import sits.
C2_NoDuplicateImport ==
    (transform = "react-addons-imports" /\ pc = "Printed")
        => \A i \in DOMAIN ADDONS_IMPORTS :
                importsFrom(source, ADDONS_IMPORTS[i][2]) = 1
                    => importsFrom(output, ADDONS_IMPORTS[i][2]) = 1

\* A reference to a name: an identifier or JSX identifier of that name (an
\* import specifier is not one).
referenced(name, tree) ==
    \E n \in Range(Visit(tree)) :
        n.type \in {"Identifier", "JSXIdentifier"} /\ n.val = name

addonsReferenced(tree) ==
    \/ referenced("addons", tree)
    \/ \E n \in Range(Visit(tree)) : isAddonsSpecifier(n)

\* Every tracked symbol of the module is reached through the namespace: by
\* member access, by a destructuring pattern or as a JSX tag name; and the
\* module has no import of a canonical addon path yet.
reachedThroughNamespaceOnly(tree) ==
    /\ \A p \in Range(trackedIdentifiers(tree, {"Identifier", "JSXIdentifier"})) :
            p.parent \in {"MemberExpression", "JSXMemberExpression",
                          "PropertyPattern"}
    /\ \A i \in DOMAIN ADDONS_IMPORTS : importsFrom(tree, ADDONS_IMPORTS[i][2]) = 0

\* C3: after the full addons pipeline no reference to `addons` is left and
\* the imports of canonical addon paths are exactly one per tracked symbol
\* that the resulting tree still references.
C3_AggregatorRemoved ==
    (/\ transform = "react-addons-imports"
     /\ pc = "Printed"
     /\ reachedThroughNamespaceOnly(source))
        => /\ ~addonsReferenced(output)
           /\ \A i \in DOMAIN ADDONS_IMPORTS :
                importsFrom(output, ADDONS_IMPORTS[i][2])
                    = IF referenced(ADDONS_IMPORTS[i][1], output) THEN 1 ELSE 0

\* C4: each codemod is idempotent on its own output: the second run prints
\* what the first run printed.
C4_Idempotent ==
    (pc = "Printed" /\ run = 2) => output = first

importsHelper(tree) ==
    \E d \in Range(body(tree)) :
        /\ d.type = "ImportDeclaration"
        /\ d.val = "DashboardUI/lib/utils"
        /\ \E sp \in Range(specifiers(d)) :
                sp.type = "ImportSpecifier" /\ sp.val = "exists"

isHelperCall(n) ==
    /\ n.type = "CallExpression"
    /\ callee(n).type = "Identifier"
    /\ callee(n).val = "exists"

\* The module holds a malformed usage: a comparison the index-search rule
\* matches whose indexOf call has not exactly one argument, or, in a module
\* that imports the helper, a call to the helper with not exactly one.
malformedUsage(tree) ==
    \/ /\ transform = "array-includes"
       /\ \E n \in Range(Visit(tree)) :
            tableCall(n) # Null /\ Len(arguments(tableCall(n))) # 1
    \/ /\ transform = "remove-exists"
       /\ importsHelper(tree)
       /\ \E n \in Range(Visit(tree)) :
            isHelperCall(n) /\ Len(arguments(n)) # 1

\* A pass the run has not made yet meets a call whose callback throws.
throwAhead ==
    CASE transform = "array-includes" -> callbackThrows("includes", root)
      [] pc = "NegatedRemoved" -> callbackThrows("exists", root)
      [] OTHER ->
            \/ callbackThrows("negated", root)
            \/ callbackThrows("exists", removeNegatedExistsUsages(root))

\* C5: a malformed usage is fatal: the run never prints a rewritten source,
\* while it has not failed a pass that throws is still ahead of it, and the
\* error it raises names the module path.
C5_MalformedUsageIsFatal ==
    malformedUsage(source)
        => /\ output = Null
           /\ pc \in {"Parsed", "ImportsRemoved", "NegatedRemoved", "Failed"}
           /\ pc # "Failed" => throwAhead
           /\ pc = "Failed" =>
                /\ Len(error) = 4
                /\ error[4] = filename
                /\ error[2] = IF transform = "array-includes" THEN "indexOf"
                              ELSE "exists"

\* A malformed helper call nested in another helper call's argument has
\* made the run fail.
C5_Witness ==
    /\ transform = "remove-exists"
    /\ pc = "Failed"
    /\ lastExpression(source) = existsCall(<<existsCall(<<>>)>>)
    /\ error = <<"incorrect usage of", "exists", "in", filename>>
    /\ filename = "src/b.js"

\* The rewrite of every helper call: !exists(x) to x == null, every other
\* exists(x) to x != null, calls in arguments included.
RECURSIVE helperRewritten(_)
helperRewritten(n) ==
    IF n.type = "UnaryExpression" /\ n.val = "!" /\ isHelperCall(argument(n))
    THEN BinaryExpression("==", helperRewritten(arguments(argument(n))[1]),
                          Literal("null"))
    ELSE IF isHelperCall(n)
    THEN BinaryExpression("!=", helperRewritten(arguments(n)[1]), Literal("null"))
    ELSE [n EXCEPT !.kids = [i \in DOMAIN n.kids |-> helperRewritten(n.kids[i])]]

\* C6: in a module that imports the helper and calls it with one argument
\* everywhere, every !exists(x) becomes x == null, every other exists(x)
\* becomes x != null, and no call to exists remains.
C6_AllCallsRewritten ==
    (/\ transform = "remove-exists"
     /\ pc \in {"Printed", "Failed"}
     /\ importsHelper(source)
     /\ \A n \in Range(Visit(source)) : isHelperCall(n) => Len(arguments(n)) = 1)
        => /\ pc = "Printed"
           /\ lastExpression(output) = helperRewritten(lastExpression(source))
           /\ \A n \in Range(Visit(output)) : ~isHelperCall(n)

isCanonicalImport(st) ==
    st.type = "ImportDeclaration" /\ has(ADDONS_PATHS, st.val)

\* The statements that end the placement search ...
endsSearch(st) ==
    st.type = "ImportDeclaration" /\ (st.val = "react" \/ has(ADDONS_PATHS, st.val))

\* ... and those the search remembers until it ends.
reactLike(st) ==
    \/ st.type = "ImportDeclaration" /\ likeReact(st.val)
    \/ st = ExpressionStatement(Literal("use es6"))

\* How many original statements precede the block of new imports.
chosenPosition(stmts) ==
    IF \E i \in DOMAIN stmts : endsSearch(stmts[i])
    THEN CHOOSE i \in DOMAIN stmts :
            endsSearch(stmts[i]) /\ \A j \in 1..(i - 1) : ~endsSearch(stmts[j])
    ELSE IF \E i \in DOMAIN stmts : reactLike(stmts[i])
    THEN CHOOSE i \in DOMAIN stmts :
            reactLike(stmts[i]) /\ \A j \in (i + 1)..Len(stmts) : ~reactLike(stmts[j])
    ELSE 0

\* C7: the new imports form one block right after the first import of
\* `react` or of a canonical path, else right after the last react-like
\* import or 'use es6' statement, else at the very top of the module; the
\* original statements keep their order.
C7_BlockPlacement ==
    (transform = "react-addons-imports" /\ pc = "Printed")
        => LET pos == chosenPosition(body(prev))
           IN  body(output) = slice(body(prev), 0, pos) \o addons
                                \o slice(body(prev), pos, Len(body(prev)))

importedNames(block) == [i \in DOMAIN block |-> specifiers(block[i])[1].val]

keyIndex(name) == CHOOSE i \in DOMAIN ADDONS_IMPORTS : ADDONS_IMPORTS[i][1] = name

\* The claim C8 as stated: the new imports come in the table's key order.
C8_KeyOrder ==
    (transform = "react-addons-imports" /\ pc = "Printed")
        => LET names == importedNames(addons)
           IN  \A i, j \in DOMAIN names :
                    i < j => keyIndex(names[i]) < keyIndex(names[j])

\* C8 as amended: the new imports come in the order in which the passes
\* first recorded their symbols in the ledger, one import per symbol, each
\* from the symbol's canonical path.
C8_LedgerOrder ==
    (transform = "react-addons-imports" /\ pc = "Printed")
        => LET names == importedNames(addons)
           IN  /\ names = SelectSeq(used, LAMBDA k : k \in Range(names))
               /\ \A k \in Range(used) :
                    importsFrom(prev, get(ADDONS_IMPORTS, k)) = 0
                        => k \in Range(names)
               /\ \A i \in DOMAIN addons :
                    addons[i] = ImportDeclaration(
                                    <<ImportDefaultSpecifier(names[i])>>,
                                    get(ADDONS_IMPORTS, names[i]))

\* Two imports were synthesized against the table's key order.
C8_Witness ==
    /\ transform = "react-addons-imports"
    /\ pc = "Printed"
    /\ importedNames(addons) = <<"Perf", "CSSTransitionGroup">>

hasCall(d) == \E n \in Range(Visit(d)) : n.type = "CallExpression"

\* The declaration destructures a tracked symbol out of an object.
destructuresSymbol(d) ==
    \E p \in Range(trackedIdentifiers(d, {"Identifier"})) :
        p.parent = "PropertyPattern"

\* The declaration reaches a tracked symbol by destructuring or by plain
\* member access.
reachesSymbol(d) ==
    \E p \in Range(trackedIdentifiers(d, {"Identifier"})) :
        p.parent \in {"PropertyPattern", "MemberExpression"}

\* The claim C9 as stated: whatever is not a call-free declaration that
\* destructures a tracked symbol stays in the tree, unchanged.
C9_DestructuringOnly ==
    (transform = "react-addons-imports" /\ pc = "DeclarationsPruned")
        => LET stays(st) == ~(/\ st.type = "VariableDeclaration"
                              /\ destructuresSymbol(st)
                              /\ ~hasCall(st))
           IN  SelectSeq(body(root), stays) = SelectSeq(body(prev), stays)

\* C9 as amended: the pass removes exactly the declarations that reach a
\* tracked symbol by destructuring or by plain member access and hold no
\* call expression; every other statement stays unchanged, and the run is
\* never aborted.
C9_PrunedDeclarations ==
    /\ transform = "react-addons-imports" => pc # "Failed" /\ error = <<>>
    /\ (transform = "react-addons-imports" /\ pc = "DeclarationsPruned")
        => LET stays(st) == ~(/\ st.type = "VariableDeclaration"
                              /\ reachesSymbol(st)
                              /\ ~hasCall(st))
           IN  body(root) = SelectSeq(body(prev), stays)

\* A plain member-access declaration was pruned, a declaration with a call
\* was kept, and a probe failure was swallowed on the way.
C9_Witness ==
    /\ transform = "react-addons-imports"
    /\ pc = "DeclarationsPruned"
    /\ swallowed > 0
    /\ \E d \in Range(body(prev)) :
        /\ d.type = "VariableDeclaration"
        /\ ~destructuresSymbol(d)
        /\ d \notin Range(body(root))
    /\ \E d \in Range(body(root)) :
        d.type = "VariableDeclaration" /\ reachesSymbol(d) /\ hasCall(d)

\* C10: the ledger starts empty, aggregator stripping leaves it empty, its
\* keys are tracked symbols, and a symbol handed to import synthesis is
\* still referenced by the tree at that point.
C10_LedgerInvariant ==
    transform = "react-addons-imports"
        => /\ pc \in {"Parsed", "AggregatorStripped"} => used = <<>>
           /\ \A k \in Range(used) : has(ADDONS_IMPORTS, k)
           /\ pc = "JSXFlattened" => \A k \in Range(used) : referenced(k, root)

=============================================================================
